---- MODULE Spec2Model ----
(***************************************************************************)
(* State-machine model of the storefront in src/app.py: the Product,       *)
(* CartItem, Order and OrderItem tables, the cart handlers, the two        *)
(* order-placing paths (the /checkout route and create_order, used by      *)
(* /place-order/cod and /place-order/upi) and the admin handlers.          *)
(*                                                                         *)
(* Storage is SQLite behind SQLAlchemy sessions, one session per request:  *)
(*   - a SELECT reads the last committed state;                            *)
(*   - a loaded object stays in the session (it is not read again) until   *)
(*     the session commits, which expires it;                              *)
(*   - a flush takes the database write lock, held until commit/rollback;  *)
(*   - an UPDATE writes the value computed in Python from the loaded       *)
(*     object (x.stock -= q writes loaded_stock - q, an absolute value).   *)
(* Requests run concurrently; a handler with several database round trips  *)
(* is split into one action per round trip that another request can        *)
(* observe or disturb.                                                     *)
(***************************************************************************)
EXTENDS Integers, Sequences, FiniteSets, TLC

\* ------------------------------------------------------------------ bounds
MaxClock == 1      \* wall-clock seconds that pass (now in 0..MaxClock)
MaxOrders == 1     \* orders placed before no further order is started
MaxCartId == 2     \* largest CartItem rowid handed out

\* ------------------------------------------------------------- small sets
Users == {"u1", "u2"}
Products == {"p1", "p2"}
Reqs == {1, 2}                       \* slots of concurrently served requests
Names == {"Silk", "Cotton"}
Prices == {1, 2}
StockInputs == {0 - 1, 0, 1}         \* int(request.form["stock"]): any integer
QtyInputs == {0, 1, 2}               \* int(request.form["quantity"])
StatusInputs == {"Pending", "Paid", "Refunded"}
Modes == {"COD", "UPI"}

NoRow == [gone |-> TRUE]             \* a row that is not in its table

VARIABLES
    product,      \* Product table: product id -> [name, price, stock] or NoRow
    cart_item,    \* CartItem table: set of [id, user_id, product_id, quantity]
    orders,       \* Order table: sequence, the order id is the position
    order_item,   \* OrderItem table: sequence of [order_id, product_name, price, quantity]
    now,          \* wall clock, in seconds
    lock,         \* the requests holding the SQLite write lock: none or one
    req           \* per request: where it is in its handler and its session

vars == <<product, cart_item, orders, order_item, now, lock, req>>
db == <<product, cart_item, orders, order_item>>

\* User.is_admin, as set by admin_create.py for the one admin account.
is_admin == [u \in Users |-> u = "u2"]

\* --------------------------------------------------------------- helpers
Max(S) == CHOOSE x \in S : \A y \in S : y <= x
Min(S) == CHOOSE x \in S : \A y \in S : x <= y

RECURSIVE SumOver(_, _)
\* sum(f(x) for x in S), for a set of distinct rows S
SumOver(S, f) ==
    IF S = {} THEN 0
    ELSE LET x == CHOOSE y \in S : TRUE IN f[x] + SumOver(S \ {x}, f)

RECURSIVE ById(_)
\* the rows of S as SQLite returns them from a table scan: by rowid
ById(S) ==
    IF S = {} THEN <<>>
    ELSE LET x == CHOOSE y \in S : \A z \in S : y.id <= z.id
         IN <<x>> \o ById(S \ {x})

\* CartItem.query.filter_by(user_id=u).all()
CartOf(u) == {c \in cart_item : c.user_id = u}

\* INTEGER PRIMARY KEY without AUTOINCREMENT: the largest rowid plus one
NextCartId == IF cart_item = {} THEN 1 ELSE Max({c.id : c \in cart_item}) + 1

Exists(p) == product[p] # NoRow

\* "ORD" + datetime.now().strftime("%Y%m%d%H%M%S"): 14 digits, one per second
strftime_code(t) == <<"ORD", "YmdHMS", t>>
\* f"ORD{int(time.time())}": the epoch seconds, 10 digits
epoch_code(t) == <<"ORD", "epoch", t>>

\* Order.order_code is unique=True: the INSERT fails on an existing code
CodeTaken(code) == \E i \in DOMAIN orders : orders[i].order_code = code

\* a request slot that serves no request: the response is sent, the session
\* is gone
Idle == [pc |-> "done", user |-> "none", items |-> {},
         cache |-> [p \in Products |-> NoRow], code |-> <<>>, order |-> 0,
         qty |-> 0]

\* the request ends with the given response (a flash message or an HTTP error)
Finished(response) == Idle

\* requests that are between starting to place an order and finishing it
Placing == {r \in Reqs : req[r].pc \in {"validate", "flush", "commit", "co_items"}}

Init ==
    /\ product = [p \in Products |->
                    [name |-> IF p = "p1" THEN "Silk" ELSE "Cotton",
                     price |-> IF p = "p1" THEN 1 ELSE 2,
                     stock |-> 1]]
    /\ cart_item = {}
    /\ orders = <<>>
    /\ order_item = <<>>
    /\ now = 0
    /\ lock = {}
    /\ req = [r \in Reqs |-> Idle]

\* The shape of the tables, from the model classes.
TypeOK ==
    /\ \A p \in Products :
          \/ product[p] = NoRow
          \/ /\ product[p].name \in Names
             /\ product[p].price \in Prices
             /\ product[p].stock \in Int
    /\ \A c \in cart_item :
          /\ c.id \in 1 .. MaxCartId
          /\ c.user_id \in Users
          /\ c.product_id \in Products
          /\ c.quantity \in Nat \ {0}
    /\ \A c, d \in cart_item : c.id = d.id => c = d            \* primary key
    /\ \A i \in DOMAIN orders :
          /\ orders[i].user_id \in Users
          /\ orders[i].payment_mode \in Modes
          /\ orders[i].total_amount \in Int
    /\ \A i, j \in DOMAIN orders :                              \* unique=True
          orders[i].order_code = orders[j].order_code => i = j
    /\ \A k \in DOMAIN order_item : order_item[k].order_id \in DOMAIN orders
    /\ now \in 0 .. MaxClock
    /\ lock \subseteq Reqs /\ Cardinality(lock) <= 1
    /\ \A r \in lock : req[r].pc = "commit"

\* ------------------------------------------------------------------ clock
Tick ==
    /\ now < MaxClock
    /\ now' = now + 1
    /\ UNCHANGED <<product, cart_item, orders, order_item, lock, req>>

\* ------------------------------------------------------------------- cart
\* add_to_cart, up to the stock check: the product, the quantity and the
\* user's existing line are read; nothing is written yet.
add_to_cart_lookup(r, u, p, qty) ==
    /\ req[r].pc = "done"
    /\ NextCartId <= MaxCartId
    /\ LET mine == {c \in CartOf(u) : c.product_id = p}
           item == IF mine = {} THEN {} ELSE {ById(mine)[1]}
           existing_qty == IF item = {} THEN 0 ELSE ById(mine)[1].quantity
       IN req' = [req EXCEPT ![r] =
            IF ~Exists(p) THEN Finished("NotFound")
            ELSE IF qty <= 0 THEN Finished("InvalidQuantity")
            ELSE IF existing_qty + qty > product[p].stock
                 THEN Finished("InsufficientStock")
            ELSE [Idle EXCEPT !.pc = "add", !.user = u, !.items = item,
                              !.cache = [x \in Products |->
                                           IF x = p THEN product[p] ELSE NoRow],
                              !.qty = qty]]
    /\ UNCHANGED <<product, cart_item, orders, order_item, now, lock>>

\* add_to_cart, the write: item.quantity += qty on the line that was found
\* (an UPDATE by primary key of the value computed from the loaded row), or
\* a new CartItem; then the commit.
add_to_cart_commit(r) ==
    /\ req[r].pc = "add"
    /\ lock = {}
    /\ LET p == CHOOSE x \in Products : req[r].cache[x] # NoRow
       IN IF req[r].items = {}
          THEN /\ NextCartId <= MaxCartId
               /\ cart_item' = cart_item \cup
                      {[id |-> NextCartId, user_id |-> req[r].user,
                        product_id |-> p, quantity |-> req[r].qty]}
               /\ req' = [req EXCEPT ![r] = Finished("OK")]
          ELSE LET item == CHOOSE c \in req[r].items : TRUE
                   rows == {c \in cart_item : c.id = item.id}
               IN IF rows = {}
                  THEN \* the UPDATE matches no row: StaleDataError, rollback
                       /\ req' = [req EXCEPT ![r] = Finished("ServerError")]
                       /\ UNCHANGED cart_item
                  ELSE /\ cart_item' = (cart_item \ rows) \cup
                              {[c EXCEPT !.quantity = item.quantity + req[r].qty]
                                  : c \in rows}
                       /\ req' = [req EXCEPT ![r] = Finished("OK")]
    /\ UNCHANGED <<product, orders, order_item, now, lock>>

update_cart(u, item_id, new_qty) ==
    /\ lock = {}
    /\ \E item \in cart_item :
         /\ item.id = item_id
         /\ IF item.user_id # u THEN UNCHANGED cart_item                \* 403
            ELSE IF new_qty <= 0 THEN cart_item' = cart_item \ {item}
            ELSE IF ~Exists(item.product_id) THEN UNCHANGED cart_item   \* 500
            ELSE IF new_qty > product[item.product_id].stock
                 THEN UNCHANGED cart_item
            ELSE cart_item' = (cart_item \ {item}) \cup
                                 {[item EXCEPT !.quantity = new_qty]}
    /\ UNCHANGED <<product, orders, order_item, now, lock, req>>

remove_cart_item(u, item_id) ==
    /\ lock = {}
    /\ \E item \in cart_item :
         /\ item.id = item_id
         /\ IF item.user_id # u THEN UNCHANGED cart_item                \* 403
            ELSE cart_item' = cart_item \ {item}
    /\ UNCHANGED <<product, orders, order_item, now, lock, req>>

\* ------------------------------------------------------------------ admin
admin_update_stock(u, id, stock) ==
    /\ lock = {}
    /\ IF is_admin[u] /\ Exists(id)
       THEN product' = [product EXCEPT ![id].stock = stock]
       ELSE UNCHANGED product                                     \* 403, 404
    /\ UNCHANGED <<cart_item, orders, order_item, now, lock, req>>

\* admin_edit_product, were an order line a live reference to its product
\* instead of a snapshot
admin_edit_product_live(u, id, name, price, stock) ==
    /\ lock = {}
    /\ IF is_admin[u] /\ Exists(id)
       THEN /\ product' = [product EXCEPT
                             ![id] = [name |-> name, price |-> price, stock |-> stock]]
            /\ order_item' = [k \in DOMAIN order_item |->
                                IF order_item[k].product_name = product[id].name
                                THEN [order_item[k] EXCEPT !.product_name = name,
                                                           !.price = price]
                                ELSE order_item[k]]
       ELSE UNCHANGED <<product, order_item>>
    /\ UNCHANGED <<cart_item, orders, now, lock, req>>

admin_edit_product(u, id, name, price, stock) ==
    /\ lock = {}
    /\ IF is_admin[u] /\ Exists(id)
       THEN product' = [product EXCEPT
                          ![id] = [name |-> name, price |-> price, stock |-> stock]]
       ELSE UNCHANGED product                                     \* 403, 404
    /\ UNCHANGED <<cart_item, orders, order_item, now, lock, req>>

\* No foreign key is enforced (SQLite's default), so the cart lines of a
\* deleted product stay, pointing at no row.
admin_delete_product(u, id) ==
    /\ lock = {}
    /\ IF is_admin[u] /\ Exists(id)
       THEN product' = [product EXCEPT ![id] = NoRow]
       ELSE UNCHANGED product                                     \* 403, 404
    /\ UNCHANGED <<cart_item, orders, order_item, now, lock, req>>

\* admin_update_order_status without its is_admin test
admin_update_order_status_open(u, order_id, new_status) ==
    /\ lock = {}
    /\ order_id \in DOMAIN orders
    /\ IF new_status \in {"Pending", "Paid"}
       THEN orders' = [orders EXCEPT ![order_id].payment_status = new_status]
       ELSE UNCHANGED orders
    /\ UNCHANGED <<product, cart_item, order_item, now, lock, req>>

admin_update_order_status(u, order_id, new_status) ==
    /\ lock = {}
    /\ order_id \in DOMAIN orders
    /\ IF is_admin[u] /\ new_status \in {"Pending", "Paid"}
       THEN orders' = [orders EXCEPT ![order_id].payment_status = new_status]
       ELSE UNCHANGED orders                       \* 403, or an unknown status
    /\ UNCHANGED <<product, cart_item, order_item, now, lock, req>>

verify_payment(u, id) ==
    /\ lock = {}
    /\ id \in DOMAIN orders
    /\ IF is_admin[u]
       THEN orders' = [orders EXCEPT ![id].payment_status = "Paid"]
       ELSE UNCHANGED orders                                           \* 403
    /\ UNCHANGED <<product, cart_item, order_item, now, lock, req>>

\* ------------------------------------------------------- order placement
\* fewer than `limit` orders are placed or under way
Room(limit) == Len(orders) + Cardinality(Placing) < limit

\* the products the lines of a cart refer to
ProductsOf(items) == {c.product_id : c \in items}

\* units of product p in the lines of a cart
Units(items, p) ==
    SumOver({c \in items : c.product_id = p}, [c \in items |-> c.quantity])

\* The validation loop of checkout over the loaded lines, in rowid order: the
\* first line that stops it decides the response. item.product is None for a
\* line whose product row is gone, and item.product.stock then raises.
Validation(items) ==
    LET s == ById(items)
        bad == {i \in 1 .. Len(s) :
                  \/ ~Exists(s[i].product_id)
                  \/ s[i].quantity > product[s[i].product_id].stock}
    IN IF bad = {} THEN "ok"
       ELSE IF ~Exists(s[Min(bad)].product_id) THEN "ServerError"
       ELSE "InsufficientStock"

\* the OrderItem rows of a cart: name and price from the product objects
\* `seen`, quantity from the cart lines `items`
Lines(order_id, items, seen) ==
    LET s == ById(items)
    IN [i \in 1 .. Len(s) |->
          [order_id |-> order_id,
           product_name |-> seen[s[i].product_id].name,
           price |-> seen[s[i].product_id].price,
           quantity |-> s[i].quantity]]

\* sum(i.product.price * i.quantity for i in items), prices from `seen`
Total(items, seen) ==
    SumOver(items, [c \in items |-> seen[c.product_id].price * c.quantity])

\* checkout: the cart query and the empty-cart test
checkout_read(r, u) ==
    /\ req[r].pc = "done"
    /\ req' = [req EXCEPT ![r] =
         IF CartOf(u) = {} THEN Finished("EmptyCart")
         ELSE [Idle EXCEPT !.pc = "validate", !.user = u, !.items = CartOf(u)]]
    /\ UNCHANGED <<product, cart_item, orders, order_item, now, lock>>

\* checkout: the stock validation, which loads each line's product into the
\* session, and the construction of the Order with its order_code
checkout_validate(r) ==
    /\ req[r].pc = "validate"
    /\ LET items == req[r].items
           v == Validation(items)
       IN req' = [req EXCEPT ![r] =
            IF v # "ok" THEN Finished(v)
            ELSE [@ EXCEPT !.pc = "flush",
                           !.cache = [p \in Products |->
                                        IF p \in ProductsOf(items)
                                        THEN product[p] ELSE NoRow],
                           !.code = strftime_code(now)]]
    /\ UNCHANGED <<product, cart_item, orders, order_item, now, lock>>

\* checkout: db.session.flush() sends the INSERT of the Order; it takes the
\* write lock, and fails on an order_code that is already there
checkout_flush(r) ==
    /\ req[r].pc = "flush"
    /\ lock = {}
    /\ IF CodeTaken(req[r].code)
       THEN /\ req' = [req EXCEPT ![r] = Finished("IntegrityError")]
            /\ UNCHANGED lock
       ELSE /\ req' = [req EXCEPT ![r].pc = "commit", ![r].order = Len(orders) + 1]
            /\ lock' = {r}
    /\ UNCHANGED <<product, cart_item, orders, order_item, now>>

\* checkout: the stock decrements, the OrderItems, the total, the deletion of
\* the user's cart lines, and the commit. The lines and the products are the
\* objects loaded by checkout_read and checkout_validate.
checkout_commit(r) ==
    /\ req[r].pc = "commit"
    /\ lock = {r}
    /\ LET items == req[r].items
           seen == req[r].cache
       IN IF \E p \in ProductsOf(items) : ~Exists(p)
          THEN \* the UPDATE of a deleted product matches no row: rollback
               /\ req' = [req EXCEPT ![r] = Finished("ServerError")]
               /\ UNCHANGED <<product, cart_item, orders, order_item>>
          ELSE /\ product' = [p \in Products |->
                                IF p \in ProductsOf(items)
                                THEN [product[p] EXCEPT
                                        !.stock = seen[p].stock - Units(items, p)]
                                ELSE product[p]]
               /\ orders' = Append(orders,
                                [order_code |-> req[r].code,
                                 user_id |-> req[r].user,
                                 payment_mode |-> "COD",
                                 payment_status |-> "Pending",
                                 total_amount |-> Total(items, seen)])
               /\ order_item' = order_item \o Lines(req[r].order, items, seen)
               /\ cart_item' = cart_item \ CartOf(req[r].user)
               /\ req' = [req EXCEPT ![r] = Finished("OK")]
    /\ lock' = {}
    /\ UNCHANGED now

\* checkout: the flush or the commit raises (the database stays locked past
\* the busy timeout, the disk is full): the session is rolled back when the
\* request ends
checkout_fail(r) ==
    /\ req[r].pc \in {"flush", "commit"}
    /\ req' = [req EXCEPT ![r] = Finished("CheckoutFailed")]
    /\ lock' = lock \ {r}
    /\ UNCHANGED <<product, cart_item, orders, order_item, now>>

\* create_order, up to its first commit: the cart query, the Order with its
\* total and order_code, and the commit of the Order alone
place_order_begin(r, u, payment_mode) ==
    /\ req[r].pc = "done"
    /\ lock = {}
    /\ LET cart_items == CartOf(u)
           code == epoch_code(now)
       IN IF \E p \in ProductsOf(cart_items) : ~Exists(p)
          THEN /\ req' = [req EXCEPT ![r] = Finished("ServerError")]
               /\ UNCHANGED orders
          ELSE IF CodeTaken(code)
          THEN /\ req' = [req EXCEPT ![r] = Finished("IntegrityError")]
               /\ UNCHANGED orders
          ELSE /\ orders' = Append(orders,
                                [order_code |-> code,
                                 user_id |-> u,
                                 payment_mode |-> payment_mode,
                                 payment_status |-> "Pending",
                                 total_amount |-> Total(cart_items, product)])
               /\ req' = [req EXCEPT ![r] =
                            [Idle EXCEPT !.pc = "co_items", !.user = u,
                                         !.items = cart_items,
                                         !.order = Len(orders) + 1]]
    /\ UNCHANGED <<product, cart_item, order_item, now, lock>>

\* create_order, after its first commit: the commit expired the loaded lines,
\* so each is read again by primary key, with its product; then the
\* OrderItems, the deletion of the user's cart lines, and the second commit
place_order_finish(r) ==
    /\ req[r].pc = "co_items"
    /\ lock = {}
    /\ LET ids == {c.id : c \in req[r].items}
           fresh == {c \in cart_item : c.id \in ids}
       IN IF \/ {c.id : c \in fresh} # ids             \* ObjectDeletedError
             \/ \E p \in ProductsOf(fresh) : ~Exists(p)
          THEN /\ req' = [req EXCEPT ![r] = Finished("ServerError")]
               /\ UNCHANGED <<cart_item, order_item>>
          ELSE /\ order_item' = order_item \o Lines(req[r].order, fresh, product)
               /\ cart_item' = cart_item \ CartOf(req[r].user)
               /\ req' = [req EXCEPT ![r] = Finished("OK")]
    /\ UNCHANGED <<product, orders, now, lock>>

\* create_order: the second commit raises; the Order of the first commit stays
place_order_fail(r) ==
    /\ req[r].pc = "co_items"
    /\ req' = [req EXCEPT ![r] = Finished("CheckoutFailed")]
    /\ UNCHANGED <<product, cart_item, orders, order_item, now, lock>>

\* ---------------------------------------------------------- specifications
CartIds == {c.id : c \in cart_item}

\* A new request is served by the first free slot (free slots are alike).
Free(r) == req[r].pc = "done" /\ \A q \in Reqs : q < r => req[q].pc # "done"

\* The requests of the application, by area: each takes the users who send
\* them, the slots that serve them, and the products they are about.
Shop(shoppers, slots, prods) ==
    \/ \E r \in slots, u \in shoppers, p \in prods, qty \in QtyInputs :
          Free(r) /\ add_to_cart_lookup(r, u, p, qty)
    \/ \E r \in slots : add_to_cart_commit(r)
    \/ \E u \in shoppers, i \in CartIds, q \in QtyInputs : update_cart(u, i, q)
    \/ \E u \in shoppers, i \in CartIds : remove_cart_item(u, i)

Checkout(shoppers, slots, limit) ==
    \/ \E r \in slots, u \in shoppers :
          Free(r) /\ Room(limit) /\ checkout_read(r, u)
    \/ \E r \in slots : checkout_validate(r)
    \/ \E r \in slots : checkout_flush(r)
    \/ \E r \in slots : checkout_commit(r)
    \/ \E r \in slots : checkout_fail(r)

CreateOrder(shoppers, slots, limit) ==
    \/ \E r \in slots, u \in shoppers, m \in Modes :
          Free(r) /\ Room(limit) /\ place_order_begin(r, u, m)
    \/ \E r \in slots : place_order_finish(r)
    \/ \E r \in slots : place_order_fail(r)

Stock(admins, prods, values) ==
    \E u \in admins, p \in prods, s \in values : admin_update_stock(u, p, s)

Catalog(admins, prods) ==
    \/ \E u \in admins, p \in prods, n \in Names, c \in Prices, s \in StockInputs :
          admin_edit_product(u, p, n, c, s)
    \/ \E u \in admins, p \in prods : admin_delete_product(u, p)

Payment(admins) ==
    \/ \E u \in admins, i \in DOMAIN orders, s \in StatusInputs :
          admin_update_order_status(u, i, s)
    \/ \E u \in admins, i \in DOMAIN orders : verify_payment(u, i)

\* The shop floor: both users shop and place orders, two requests at a time,
\* while the admin corrects stock (all within one second).
Next ==
    \/ Shop(Users, Reqs, Products)
    \/ Checkout(Users, Reqs, MaxOrders)
    \/ CreateOrder(Users, Reqs, MaxOrders)
    \/ Stock(Users, Products, StockInputs)

Spec == Init /\ [][Next]_vars

\* The last unit: the stock of p1 is 1 and each user has one unit of p1 in
\* the cart (the admin set the stock, each user added one unit); both check
\* out, two requests at a time.
InitRace ==
    /\ product = [p \in Products |->
                    [name |-> IF p = "p1" THEN "Silk" ELSE "Cotton",
                     price |-> IF p = "p1" THEN 1 ELSE 2,
                     stock |-> 1]]
    /\ cart_item = {[id |-> 1, user_id |-> "u1", product_id |-> "p1", quantity |-> 1],
                    [id |-> 2, user_id |-> "u2", product_id |-> "p1", quantity |-> 1]}
    /\ orders = <<>>
    /\ order_item = <<>>
    /\ now = 0
    /\ lock = {}
    /\ req = [r \in Reqs |-> Idle]

NextRace ==
    \/ Tick
    \/ Checkout(Users, Reqs, Cardinality(Users))

SpecRace == InitRace /\ [][NextRace]_vars

\* The ledger: one user shops for one product and places orders, while the
\* admin edits, deletes and restocks the product and books payments (all
\* within one second).
NextLedger ==
    \/ Shop({"u1"}, {1}, {"p1"})
    \/ Checkout({"u1"}, {1}, MaxOrders)
    \/ CreateOrder({"u1"}, {1}, MaxOrders)
    \/ Stock({"u2"}, {"p1"}, StockInputs)
    \/ Catalog({"u2"}, {"p1"})
    \/ Payment(Users)

SpecLedger == Init /\ [][NextLedger]_vars

\* The filled cart: a user with one unit of each product in the cart checks
\* out, while the admin restocks and deletes products.
InitCart ==
    /\ product = [p \in Products |->
                    [name |-> IF p = "p1" THEN "Silk" ELSE "Cotton",
                     price |-> IF p = "p1" THEN 1 ELSE 2,
                     stock |-> 1]]
    /\ cart_item = {[id |-> 1, user_id |-> "u1", product_id |-> "p1", quantity |-> 1],
                    [id |-> 2, user_id |-> "u1", product_id |-> "p2", quantity |-> 1]}
    /\ orders = <<>>
    /\ order_item = <<>>
    /\ now = 0
    /\ lock = {}
    /\ req = [r \in Reqs |-> Idle]

NextCart ==
    \/ \E i \in CartIds, q \in QtyInputs : update_cart("u1", i, q)
    \/ Checkout({"u1"}, {1}, MaxOrders)
    \/ Stock({"u2"}, Products, {0, 1})
    \/ \E p \in Products : admin_delete_product("u2", p)

SpecCart == InitCart /\ [][NextCart]_vars

\* ------------------------------------------------------------------ claims
\* the OrderItem rows of order i in the table tbl
LinesOf(tbl, i) == SelectSeq(tbl, LAMBDA x : x.order_id = i)

RECURSIVE SeqSum(_)
SeqSum(q) == IF q = <<>> THEN 0 ELSE Head(q).price * Head(q).quantity + SeqSum(Tail(q))

\* C1: every product has stock >= 0 in every reachable state.
C1_StockNeverNegative ==
    \A p \in Products : Exists(p) => product[p].stock >= 0

\* C2: of two users' concurrent checkouts for the last unit of a product, one
\* fails: it never happens that both users get an order.
C2_LastUnitSoldOnce ==
    \A i, j \in DOMAIN orders : orders[i].user_id = orders[j].user_id

\* C3: an order-placing request for a cart with lines that fails after it
\* started writing leaves no order behind: the order it inserted is not in the
\* Order table.
C3_FailedPlacementLeavesNoOrder ==
    [][\A r \in Reqs :
          (/\ checkout_fail(r) \/ place_order_fail(r)
           /\ req[r].items # {})
             => (req[r].order = 0 \/ req[r].order > Len(orders'))]_vars

\* C4: a checkout whose cart has a line with a quantity above the product's
\* current stock is answered with InsufficientStock, and changes no stock, no
\* order, no order line and no cart line.
C4_ValidateThenCommit ==
    [][\A r \in Reqs :
          (/\ checkout_validate(r)
           /\ \E c \in req[r].items :
                 /\ Exists(c.product_id)
                 /\ c.quantity > product[c.product_id].stock)
             => (/\ Validation(req[r].items) = "InsufficientStock"
                 /\ UNCHANGED db)]_vars

\* C5: in every committed state, every order's total_amount is the sum of
\* price * quantity over its order lines.
C5_TotalIsSumOfLines ==
    \A i \in DOMAIN orders :
        orders[i].total_amount = SeqSum(LinesOf(order_item, i))

\* C6: placing an order with an empty cart creates no order and changes no
\* stock, through checkout and through create_order.
C6_EmptyCartPlacesNothing ==
    [][\A r \in Reqs, u \in Users :
          (/\ CartOf(u) = {}
           /\ checkout_read(r, u) \/ \E m \in Modes : place_order_begin(r, u, m))
             => UNCHANGED <<orders, order_item, product>>]_vars

\* C7: a placement that succeeds (it ends by emptying the user's cart) takes
\* the quantity of every cart line off the stock of the line's product.
C7_PlacementTakesStock ==
    [][\A r \in Reqs :
          (/\ checkout_commit(r) \/ place_order_finish(r)
           /\ CartOf(req[r].user) # {}
           /\ cart_item' = cart_item \ CartOf(req[r].user))
             => \A p \in ProductsOf(CartOf(req[r].user)) :
                   product'[p].stock
                      = product[p].stock - Units(CartOf(req[r].user), p)]_vars

C9_PaidStaysPaid ==
    [][\A i \in DOMAIN orders :
          orders[i].payment_status = "Paid"
             => orders'[i].payment_status = "Paid"]_vars

\* C9, amended: an order's payment_status is Pending or Paid; a payment
\* request of a user who is no admin changes no order; and a payment_status
\* changes only in a step that is an admin's update-status request for that
\* order with the new status (Pending or Paid), or an admin's verify-payment
\* request for it.
C9_StatusSetByAdminOnly ==
    [][/\ \A i \in DOMAIN orders' : orders'[i].payment_status \in {"Pending", "Paid"}
       /\ \A u \in Users, i \in DOMAIN orders :
             (/\ ~is_admin[u]
              /\ verify_payment(u, i)
                   \/ \E st \in StatusInputs : admin_update_order_status(u, i, st))
                => UNCHANGED orders
       /\ \A i \in DOMAIN orders :
             orders'[i].payment_status # orders[i].payment_status
                => \E u \in Users :
                      /\ is_admin[u]
                      /\ verify_payment(u, i)
                           \/ admin_update_order_status(u, i, orders'[i].payment_status)
      ]_vars

\* an order with lines, placed as Pending, is Paid
C9_Witness ==
    \E k \in DOMAIN order_item :
        /\ orders[order_item[k].order_id].payment_status = "Paid"
        /\ orders[order_item[k].order_id].payment_mode = "UPI"

\* C10: no order placement is refused because its order_code is taken.
C10_CodeCollisionNotSurfaced ==
    [][\A r \in Reqs : checkout_flush(r) => ~CodeTaken(req[r].code)]_vars

\* C11: every (user, product) pair has at most one cart line, also when two
\* add-to-cart requests interleave between the lookup and the commit.
C11_OneLinePerUserProduct ==
    \A c, d \in cart_item :
        (c.user_id = d.user_id /\ c.product_id = d.product_id) => c = d

====
